---- MODULE Spec2Model ----
(***************************************************************************)
(* giantswarm/rangepool: allocation of unique integers of a range          *)
(* [min, max] to IDs, per namespace, persisted in a key-value storage.     *)
(*                                                                         *)
(* The storage is a map from keys to values.  A key is the sequence of the *)
(* "/"-separated segments of the key string, so that                       *)
(* "range-pool/ns1/item/3" is <<"range-pool", "ns1", "item", "3">>; an     *)
(* item is stored as its decimal numeral, as strconv.Itoa writes it.       *)
(***************************************************************************)
EXTENDS Integers, Sequences, FiniteSets, TLC

\* Largest max boundary a caller uses.
MaxVal == 3
\* Largest num (batch size) a caller asks for.
MaxNum == 3

\* The namespaces and IDs the callers use.
Namespaces == {"ns1"}
IDs == {"id1", "id2"}
\* The namespaces of the runs with more than one namespace.
AllNamespaces == {"ns1", "ns2"}
\* The callers whose calls interleave.
Procs == {"p1", "p2"}

\* The (min, max) pairs a caller may be configured with: the valid ones and
\* the ones nextItem rejects.
Ranges == (-1 .. MaxVal) \X (-1 .. MaxVal)

VARIABLES
    storage,   \* the key-value storage: [key -> value]
    rng,       \* <<min, max>>, the boundaries the caller passes on every call
    ret,       \* the last completed call: arguments, locals read, result
    returned,  \* per namespace: the values successful Creates returned since
               \* the last Delete on it, in allocation order (history)
    call,      \* the last direct call of nextItem: arguments and result
    hist,      \* history of the completed calls: held[namespace][ID], the values
               \* successful Creates returned for the ID since the last
               \* successful Delete of the ID; last[namespace], the last value
               \* of the most recent successful Create batch (-1: none yet)
    procs      \* per caller of an interleaved call: its position in
               \* Service.Create, its arguments and its local variables

vars == <<storage, rng, ret, returned, call, hist, procs>>

----------------------------------------------------------------------------
\* Error kinds.
capacityReachedError == "capacityReachedError"
executionFailedError == "executionFailed"
itemsNotFoundError == "itemsNotFoundError"
\* The error of a storage operation that fails; the operation has no effect.
storageError == "storage error"
\* strconv.Atoi's error on a string that is no numeral.
atoiError == "strconv.Atoi: invalid syntax"
\* The runtime panic of items[len(items)-1] on an empty slice.
indexOutOfRange == "panic: index out of range"
noError == "nil"

latestItemException == -1

----------------------------------------------------------------------------
\* strconv.Itoa / strconv.Atoi on decimal numerals.

DigitChars == <<"0", "1", "2", "3", "4", "5", "6", "7", "8", "9">>

RECURSIVE Digits(_)
Digits(n) ==
    IF n < 10 THEN DigitChars[n + 1]
    ELSE Digits(n \div 10) \o DigitChars[(n % 10) + 1]

Itoa(n) == IF n < 0 THEN "-" \o Digits(0 - n) ELSE Digits(n)

\* The digit each digit character denotes.
DigitValues ==
    [c \in {DigitChars[j] : j \in 1 .. 10} |->
        (CHOOSE j \in 1 .. 10 : DigitChars[j] = c) - 1]

\* The digit a character denotes, -1 for any other character.
DigitValue(c) == IF c \in DOMAIN DigitValues THEN DigitValues[c] ELSE -1

\* s consists of digits only.
RECURSIVE AllDigits(_)
AllDigits(s) ==
    Len(s) = 0 \/ (DigitValue(Head(s)) >= 0 /\ AllDigits(Tail(s)))

\* The value of the digits s after the digits of value acc.
RECURSIVE DigitsValue(_, _)
DigitsValue(s, acc) ==
    IF Len(s) = 0 THEN acc
    ELSE DigitsValue(Tail(s), 10 * acc + DigitValue(Head(s)))

\* s without its sign, when it has one.
Unsigned(s) ==
    IF Len(s) > 0 /\ (Head(s) = "+" \/ Head(s) = "-") THEN Tail(s) ELSE s

\* strconv.Atoi succeeds on s: an optional sign and one decimal digit or
\* more.  Leading zeros are accepted.  The values are those of the model's
\* integers; strconv's range error lies beyond them.
IsNumeral(s) == Len(Unsigned(s)) > 0 /\ AllDigits(Unsigned(s))

Atoi(s) ==
    IF Len(s) > 0 /\ Head(s) = "-" THEN 0 - DigitsValue(Unsigned(s), 0)
    ELSE DigitsValue(Unsigned(s), 0)

----------------------------------------------------------------------------
\* Key formats.

IDKeyFormat(namespace, ID, item) == <<"range-pool", namespace, "id", ID, "item", item>>
IDListKeyFormat(namespace, ID) == <<"range-pool", namespace, "id", ID, "item">>
ItemKeyFormat(namespace, item) == <<"range-pool", namespace, "item", item>>
ItemListKeyFormat(namespace) == <<"range-pool", namespace, "item">>
\* One latest key for all namespaces.
LatestKeyFormatShared(namespace) == <<"range-pool", "latest">>

LatestKeyFormat(namespace) == <<"range-pool", namespace, "latest">>

----------------------------------------------------------------------------
\* The storage collaborator (microstorage.Service, in-memory): each
\* operation on a map d.

StorageCreate(d, key, value) ==
    [k \in (DOMAIN d) \cup {key} |-> IF k = key THEN value ELSE d[k]]

StorageDelete(d, key) == [k \in (DOMAIN d) \ {key} |-> d[k]]

\* Point lookup; found = FALSE is the "not found" error.
StorageSearch(d, key) ==
    IF key \in DOMAIN d THEN [found |-> TRUE, value |-> d[key]]
    ELSE [found |-> FALSE, value |-> ""]

\* Prefix scan: the keys below key, relative to it.  The empty result is the
\* "not found" error, which both callers treat as an empty list.
StorageList(d, key) ==
    {SubSeq(k, Len(key) + 1, Len(k)) :
        k \in {kk \in DOMAIN d : /\ Len(kk) > Len(key)
                                 /\ SubSeq(kk, 1, Len(key)) = key}}

\* A listed key as the string the storage returns: its segments joined by "/".
RECURSIVE Join(_)
Join(p) == IF Len(p) <= 1 THEN p[1] ELSE p[1] \o "/" \o Join(Tail(p))

\* The lists a List may return for the keys S: the storage fixes no order.
RECURSIVE Listings(_)
Listings(S) ==
    IF S = {} THEN {<<>>}
    ELSE UNION {{<<Join(p)>> \o l : l \in Listings(S \ {p})} : p \in S}

\* One of the lists a List may return for the keys S.
RECURSIVE Listing(_)
Listing(S) ==
    IF S = {} THEN <<>>
    ELSE LET p == CHOOSE q \in S : TRUE IN <<Join(p)>> \o Listing(S \ {p})

----------------------------------------------------------------------------
\* Helpers on lists of ints.

Range(s) == {s[j] : j \in 1 .. Len(s)}

Min(S) == CHOOSE x \in S : \A y \in S : x <= y

\* sort.Ints
RECURSIVE SortInts(_)
SortInts(s) ==
    IF s = <<>> THEN <<>>
    ELSE LET rest == SortInts(Tail(s))
             k == Cardinality({j \in 1 .. Len(rest) : rest[j] <= Head(s)})
         IN  SubSeq(rest, 1, k) \o <<Head(s)>> \o SubSeq(rest, k + 1, Len(rest))

containsInt(list, item) == \E j \in 1 .. Len(list) : list[j] = item

\* stringsToInts: the ints of a list of strings, in the order of the list.
\* Result: [ints, err].
stringsToInts(list) ==
    IF \E j \in 1 .. Len(list) : ~IsNumeral(list[j])
    THEN [ints |-> <<>>, err |-> atoiError]
    ELSE [ints |-> [j \in 1 .. Len(list) |-> Atoi(list[j])], err |-> noError]

----------------------------------------------------------------------------
\* nextItem

\* Mutant: the scan does not skip the items in use.
iteratorIgnoresUsed(used, min, max) ==
    IF min > max THEN latestItemException ELSE min

\* Mutant: the scan runs one past max (i <= max + 1).
RECURSIVE iteratorPastMax(_, _, _)
iteratorPastMax(used, min, max) ==
    IF min > max + 1 THEN latestItemException
    ELSE IF containsInt(used, min) THEN iteratorPastMax(used, min + 1, max)
    ELSE min

\* The closure iterator of nextItem: the first i of min..max not in used,
\* latestItemException if there is none.
RECURSIVE iterator(_, _, _)
iterator(used, min, max) ==
    IF min > max THEN latestItemException
    ELSE IF containsInt(used, min) THEN iterator(used, min + 1, max)
    ELSE min

\* Mutant: the first scan starts two past latest.
nextItemSkipsOne(used, min, max, latest) ==
    IF min <= -1 \/ max <= -1 \/ min >= max
       \/ (latest # latestItemException /\ (latest < min \/ latest > max))
    THEN [item |-> 0, err |-> executionFailedError]
    ELSE LET sorted == SortInts(used)
             first == IF latest # latestItemException
                      THEN iterator(sorted, latest + 2, max)
                      ELSE latestItemException
             second == iterator(sorted, min, max)
         IN  IF latest # latestItemException /\ first # latestItemException
             THEN [item |-> first, err |-> noError]
             ELSE IF second # latestItemException
             THEN [item |-> second, err |-> noError]
             ELSE [item |-> 0, err |-> capacityReachedError]

\* Mutant: the lowest free item of min..max, whatever latest is.
nextItemLowestFree(used, min, max, latest) ==
    IF min <= -1 \/ max <= -1 \/ min >= max
       \/ (latest # latestItemException /\ (latest < min \/ latest > max))
    THEN [item |-> 0, err |-> executionFailedError]
    ELSE LET second == iterator(SortInts(used), min, max)
         IN  IF second # latestItemException
             THEN [item |-> second, err |-> noError]
             ELSE [item |-> 0, err |-> capacityReachedError]

\* Mutant: no second scan from min once the scan above latest finds nothing.
nextItemNoWrap(used, min, max, latest) ==
    IF min <= -1 \/ max <= -1 \/ min >= max
       \/ (latest # latestItemException /\ (latest < min \/ latest > max))
    THEN [item |-> 0, err |-> executionFailedError]
    ELSE LET sorted == SortInts(used)
             first == IF latest # latestItemException
                      THEN iterator(sorted, latest + 1, max)
                      ELSE iterator(sorted, min, max)
         IN  IF first # latestItemException
             THEN [item |-> first, err |-> noError]
             ELSE [item |-> 0, err |-> capacityReachedError]

\* Mutant: latest is not checked against max.
nextItemNoUpperCheck(used, min, max, latest) ==
    IF min <= -1 \/ max <= -1 \/ min >= max
       \/ (latest # latestItemException /\ latest < min)
    THEN [item |-> 0, err |-> executionFailedError]
    ELSE LET sorted == SortInts(used)
             first == IF latest # latestItemException
                      THEN iterator(sorted, latest + 1, max)
                      ELSE latestItemException
             second == iterator(sorted, min, max)
         IN  IF latest # latestItemException /\ first # latestItemException
             THEN [item |-> first, err |-> noError]
             ELSE IF second # latestItemException
             THEN [item |-> second, err |-> noError]
             ELSE [item |-> 0, err |-> capacityReachedError]

nextItem(used, min, max, latest) ==
    IF min <= -1 THEN [item |-> 0, err |-> executionFailedError]
    ELSE IF max <= -1 THEN [item |-> 0, err |-> executionFailedError]
    ELSE IF min >= max THEN [item |-> 0, err |-> executionFailedError]
    ELSE IF latest # latestItemException /\ latest < min
         THEN [item |-> 0, err |-> executionFailedError]
    ELSE IF latest # latestItemException /\ latest > max
         THEN [item |-> 0, err |-> executionFailedError]
    ELSE LET sorted == SortInts(used)
             first == IF latest # latestItemException
                      THEN iterator(sorted, latest + 1, max)
                      ELSE latestItemException
             second == iterator(sorted, min, max)
         IN  IF latest # latestItemException /\ first # latestItemException
             THEN [item |-> first, err |-> noError]
             ELSE IF second # latestItemException
             THEN [item |-> second, err |-> noError]
             ELSE [item |-> 0, err |-> capacityReachedError]

----------------------------------------------------------------------------
\* Service

\* Mutant: at exhaustion the loop stops and keeps the items found so far.
RECURSIVE allocatePartial(_, _, _, _, _, _)
allocatePartial(used, items, n, min, max, latest) ==
    IF n <= 0 THEN [items |-> items, err |-> noError]
    ELSE LET r == nextItem(used, min, max, latest)
         IN  IF r.err = capacityReachedError THEN [items |-> items, err |-> noError]
             ELSE IF r.err # noError THEN [items |-> <<>>, err |-> r.err]
             ELSE allocatePartial(Append(used, r.item), Append(items, r.item),
                                  n - 1, min, max, latest)

\* Mutant: the item found is not appended to used.
RECURSIVE allocateNoFold(_, _, _, _, _, _)
allocateNoFold(used, items, n, min, max, latest) ==
    IF n <= 0 THEN [items |-> items, err |-> noError]
    ELSE LET r == nextItem(used, min, max, latest)
         IN  IF r.err # noError THEN [items |-> <<>>, err |-> r.err]
             ELSE allocateNoFold(used, Append(items, r.item),
                                 n - 1, min, max, latest)

\* Mutant: the loop runs once more than num (i <= num).
RECURSIVE allocateOffByOne(_, _, _, _, _, _)
allocateOffByOne(used, items, n, min, max, latest) ==
    IF n < 0 THEN [items |-> items, err |-> noError]
    ELSE LET r == nextItem(used, min, max, latest)
         IN  IF r.err # noError THEN [items |-> <<>>, err |-> r.err]
             ELSE allocateOffByOne(Append(used, r.item), Append(items, r.item),
                                   n - 1, min, max, latest)

\* The loop of Create: num calls of nextItem with the same latest, each
\* result appended to items and to used.  Result: [items, err].
RECURSIVE allocate(_, _, _, _, _, _)
allocate(used, items, n, min, max, latest) ==
    IF n <= 0 THEN [items |-> items, err |-> noError]
    ELSE LET r == nextItem(used, min, max, latest)
         IN  IF r.err # noError THEN [items |-> <<>>, err |-> r.err]
             ELSE allocate(Append(used, r.item), Append(items, r.item),
                           n - 1, min, max, latest)

\* Mutant: only the ID record of each item is created.
RECURSIVE createItemsNoNamespaceRecord(_, _, _, _)
createItemsNoNamespaceRecord(d, namespace, ID, items) ==
    IF items = <<>> THEN d
    ELSE LET i == Itoa(Head(items))
             d2 == StorageCreate(d, IDKeyFormat(namespace, ID, i), i)
         IN  createItemsNoNamespaceRecord(d2, namespace, ID, Tail(items))

\* Mutant: only the namespace record of each item is created.
RECURSIVE createItemsNoIDRecord(_, _, _, _)
createItemsNoIDRecord(d, namespace, ID, items) ==
    IF items = <<>> THEN d
    ELSE LET i == Itoa(Head(items))
             d1 == StorageCreate(d, ItemKeyFormat(namespace, i), i)
         IN  createItemsNoIDRecord(d1, namespace, ID, Tail(items))

\* The loop of create: the namespace record and the ID record of each item.
RECURSIVE createItems(_, _, _, _)
createItems(d, namespace, ID, items) ==
    IF items = <<>> THEN d
    ELSE LET i == Itoa(Head(items))
             d1 == StorageCreate(d, ItemKeyFormat(namespace, i), i)
             d2 == StorageCreate(d1, IDKeyFormat(namespace, ID, i), i)
         IN  createItems(d2, namespace, ID, Tail(items))

\* Mutant: the ID records the ID had before are dropped.
createDropsHeld(d, namespace, ID, items) ==
    LET old == {k \in DOMAIN d : /\ Len(k) = 6
                                 /\ SubSeq(k, 1, 5) = IDListKeyFormat(namespace, ID)}
        d0 == [k \in (DOMAIN d) \ old |-> d[k]]
        d1 == createItems(d0, namespace, ID, items)
    IN  IF Len(items) = 0 THEN [storage |-> d1, err |-> indexOutOfRange]
        ELSE [storage |-> StorageCreate(d1, LatestKeyFormat(namespace),
                                        Itoa(items[Len(items)])),
              err |-> noError]

\* Mutant: the latest item is not stored.
createNoLatest(d, namespace, ID, items) ==
    LET d1 == createItems(d, namespace, ID, items)
    IN  IF Len(items) = 0 THEN [storage |-> d1, err |-> indexOutOfRange]
        ELSE [storage |-> d1, err |-> noError]

\* Mutant: the first item of the batch is stored as the latest item.
createLatestFirst(d, namespace, ID, items) ==
    LET d1 == createItems(d, namespace, ID, items)
    IN  IF Len(items) = 0 THEN [storage |-> d1, err |-> indexOutOfRange]
        ELSE [storage |-> StorageCreate(d1, LatestKeyFormat(namespace),
                                        Itoa(items[1])),
              err |-> noError]

\* create persists new items and the latest item.  Result: [storage, err].
create(d, namespace, ID, items) ==
    LET d1 == createItems(d, namespace, ID, items)
    IN  IF Len(items) = 0 THEN [storage |-> d1, err |-> indexOutOfRange]
        ELSE [storage |-> StorageCreate(d1, LatestKeyFormat(namespace),
                                        Itoa(items[Len(items)])),
              err |-> noError]

\* Mutant: only the ID record of each item is deleted.
RECURSIVE deleteItemsKeepsNamespaceRecord(_, _, _, _)
deleteItemsKeepsNamespaceRecord(d, namespace, ID, items) ==
    IF items = <<>> THEN d
    ELSE LET i == Itoa(Head(items))
             d2 == StorageDelete(d, IDKeyFormat(namespace, ID, i))
         IN  deleteItemsKeepsNamespaceRecord(d2, namespace, ID, Tail(items))

\* Mutant: only the namespace record of each item is deleted.
RECURSIVE deleteItemsKeepsIDRecord(_, _, _, _)
deleteItemsKeepsIDRecord(d, namespace, ID, items) ==
    IF items = <<>> THEN d
    ELSE LET i == Itoa(Head(items))
             d1 == StorageDelete(d, ItemKeyFormat(namespace, i))
         IN  deleteItemsKeepsIDRecord(d1, namespace, ID, Tail(items))

\* The loop of delete: the namespace record and the ID record of each item.
RECURSIVE deleteItems(_, _, _, _)
deleteItems(d, namespace, ID, items) ==
    IF items = <<>> THEN d
    ELSE LET i == Itoa(Head(items))
             d1 == StorageDelete(d, ItemKeyFormat(namespace, i))
             d2 == StorageDelete(d1, IDKeyFormat(namespace, ID, i))
         IN  deleteItems(d2, namespace, ID, Tail(items))

\* Mutant: the latest item key is kept when the namespace lists no item.
deleteKeepsLatest(d, namespace, ID, items) ==
    LET d1 == deleteItems(d, namespace, ID, items)
        d2 == StorageDelete(d1, IDListKeyFormat(namespace, ID))
        list == StorageList(d2, ItemListKeyFormat(namespace))
    IN  IF Cardinality(list) = 0
        THEN StorageDelete(d2, ItemListKeyFormat(namespace))
        ELSE d2

\* Mutant: the latest item key is deleted whether or not items remain.
deleteAlwaysPurges(d, namespace, ID, items) ==
    LET d1 == deleteItems(d, namespace, ID, items)
        d2 == StorageDelete(d1, IDListKeyFormat(namespace, ID))
    IN  StorageDelete(StorageDelete(d2, ItemListKeyFormat(namespace)),
                      LatestKeyFormat(namespace))

\* delete removes the items of an ID, and the item list key and the latest
\* item key once the namespace lists no item.  Result: the storage.
delete(d, namespace, ID, items) ==
    LET d1 == deleteItems(d, namespace, ID, items)
        d2 == StorageDelete(d1, IDListKeyFormat(namespace, ID))
        list == StorageList(d2, ItemListKeyFormat(namespace))
    IN  IF Cardinality(list) = 0
        THEN StorageDelete(StorageDelete(d2, ItemListKeyFormat(namespace)),
                           LatestKeyFormat(namespace))
        ELSE d2

\* The record of a completed call.
Ret(op, namespace, ID, num, used, latest, owned, items, err) ==
    [op |-> op, namespace |-> namespace, ID |-> ID, num |-> num,
     used |-> used, latest |-> latest, owned |-> owned,
     items |-> items, err |-> err]

\* Service.Create as one call: the outcome [storage, ret] on storage d, list
\* being what the List of the items of the namespace returns.  ret records
\* used as nextItem leaves it, sorted.
CreateCall(d, namespace, ID, num, min, max, list) ==
    LET u == stringsToInts(list)
        l == StorageSearch(d, LatestKeyFormat(namespace))
        ls == IF l.found THEN l.value ELSE Itoa(latestItemException)
        latest == IF IsNumeral(ls) THEN Atoi(ls) ELSE 0
        a == allocate(u.ints, <<>>, num, min, max, latest)
        c == create(d, namespace, ID, a.items)
        R(items, err) == Ret("Create", namespace, ID, num, SortInts(u.ints), latest,
                             <<>>, items, err)
    IN  IF u.err # noError THEN [storage |-> d, ret |-> R(<<>>, u.err)]
        ELSE IF ~IsNumeral(ls) THEN [storage |-> d, ret |-> R(<<>>, atoiError)]
        ELSE IF a.err # noError THEN [storage |-> d, ret |-> R(<<>>, a.err)]
        ELSE IF c.err # noError THEN [storage |-> c.storage, ret |-> R(<<>>, c.err)]
        ELSE [storage |-> c.storage, ret |-> R(a.items, noError)]

\* Service.Delete as one call: the outcome [storage, ret] on storage d, list
\* being what the List of the items of the ID returns.  ret records the
\* items listed in ascending order.
DeleteCall(d, namespace, ID, list) ==
    LET u == stringsToInts(list)
        R(err) == Ret("Delete", namespace, ID, 0, <<>>, latestItemException,
                      SortInts(u.ints), <<>>, err)
    IN  IF u.err # noError THEN [storage |-> d, ret |-> R(u.err)]
        ELSE [storage |-> delete(d, namespace, ID, u.ints), ret |-> R(noError)]

\* Service.Search as one call: the items of an ID in ascending order, or
\* itemsNotFoundError when the storage lists none.  list is what the List of
\* the items of the ID returns.  Result: ret.
SearchCall(d, namespace, ID, list) ==
    LET u == stringsToInts(list)
        R(items, err) == Ret("Search", namespace, ID, 0, <<>>, latestItemException,
                             <<>>, items, err)
    IN  IF Len(list) = 0 THEN R(<<>>, itemsNotFoundError)
        ELSE IF u.err # noError THEN R(<<>>, u.err)
        ELSE R(SortInts(u.ints), noError)

----------------------------------------------------------------------------
\* The state machine: one caller at a time, every call runs to completion.

EmptyStorage == [k \in {} |-> ""]

NoRet == Ret("none", "", "", 0, <<>>, latestItemException, <<>>, <<>>, noError)

NoCall == [used |-> <<>>, min |-> 0, max |-> 0, latest |-> latestItemException,
           out |-> [item |-> 0, err |-> "none"]]

NoHist == [held |-> [n \in AllNamespaces |-> [a \in IDs |-> {}]],
           last |-> [n \in AllNamespaces |-> latestItemException]]

\* The history after a completed call with record r.
HistAfter(r) ==
    IF r.err # noError THEN hist
    ELSE IF r.op = "Create"
    THEN [held |-> [hist.held EXCEPT ![r.namespace][r.ID] = @ \cup Range(r.items)],
          last |-> [hist.last EXCEPT ![r.namespace] = r.items[Len(r.items)]]]
    ELSE IF r.op = "Delete"
    THEN [hist EXCEPT !.held[r.namespace][r.ID] = {}]
    ELSE hist

\* A caller that has not called yet.
Idle == [pc |-> "idle", namespace |-> "", ID |-> "", num |-> 0, used |-> <<>>,
         latest |-> latestItemException, items |-> <<>>, i |-> 0,
         err |-> noError]

NoProcs == [p \in Procs |-> Idle]

Init ==
    /\ storage = EmptyStorage
    /\ rng \in Ranges
    /\ ret = NoRet
    /\ returned = [n \in AllNamespaces |-> <<>>]
    /\ call = NoCall
    /\ hist = NoHist
    /\ procs = NoProcs

\* Service.Create.  The call reads what it listed only after nextItem has
\* sorted it (sort.Ints), and ret records it sorted: the outcome is the same
\* for every order in which the storage lists the items, and the action
\* computes it from one of them.
Create(namespace, ID, num) ==
    \E out \in {CreateCall(storage, namespace, ID, num, rng[1], rng[2],
                            Listing(StorageList(storage, ItemListKeyFormat(namespace))))} :
        /\ storage' = out.storage
        /\ ret' = out.ret
        /\ returned' = [returned EXCEPT ![namespace] = @ \o out.ret.items]
        /\ hist' = HistAfter(out.ret)
        /\ UNCHANGED <<rng, call, procs>>

\* Service.Delete, for every order in which the storage lists the items.
Delete(namespace, ID) ==
    \E out \in {DeleteCall(storage, namespace, ID, list) :
                   list \in Listings(StorageList(storage, IDListKeyFormat(namespace, ID)))} :
        /\ storage' = out.storage
        /\ ret' = out.ret
        /\ returned' = [returned EXCEPT ![namespace] = <<>>]
        /\ hist' = HistAfter(out.ret)
        /\ UNCHANGED <<rng, call, procs>>

Next ==
    \/ \E namespace \in Namespaces, ID \in IDs, num \in 0 .. MaxNum :
           Create(namespace, ID, num)
    \/ \E namespace \in Namespaces, ID \in IDs : Delete(namespace, ID)

Spec == Init /\ [][Next]_vars

----------------------------------------------------------------------------
\* Create, Delete and Search, one caller at a time.

Search(namespace, ID) ==
    \E out \in {SearchCall(storage, namespace, ID, list) :
                   list \in Listings(StorageList(storage, IDListKeyFormat(namespace, ID)))} :
        /\ ret' = out
        /\ hist' = HistAfter(ret')
        /\ UNCHANGED <<storage, rng, returned, call, procs>>

NextSearch ==
    \/ Next
    \/ \E namespace \in Namespaces, ID \in IDs : Search(namespace, ID)

SpecSearch == Init /\ [][NextSearch]_vars

----------------------------------------------------------------------------
\* nextItem on its own: every argument drawn from a bounded set.

\* The lists without repetition over S, in ascending and in descending order.
RECURSIVE Ascending(_)
Ascending(S) == IF S = {} THEN <<>> ELSE <<Min(S)>> \o Ascending(S \ {Min(S)})

Reverse(s) == [j \in 1 .. Len(s) |-> s[Len(s) + 1 - j]]

UsedLists ==
    UNION {{Ascending(S), Reverse(Ascending(S))} : S \in SUBSET (0 .. MaxVal)}

\* A call of nextItem not yet made.
Pending == [item |-> 0, err |-> "pending"]

InitNextItem ==
    /\ storage = EmptyStorage
    /\ rng = <<0, MaxVal>>
    /\ ret = NoRet
    /\ returned = [n \in AllNamespaces |-> <<>>]
    /\ hist = NoHist
    /\ procs = NoProcs
    /\ call \in [used : UsedLists, min : -1 .. MaxVal, max : -1 .. MaxVal,
                 latest : -2 .. (MaxVal + 1), out : {Pending}]

CallNextItem ==
    /\ call.out = Pending
    /\ call' = [call EXCEPT !.out = nextItem(call.used, call.min, call.max, call.latest)]
    /\ UNCHANGED <<storage, rng, ret, returned, hist, procs>>

SpecNextItem == InitNextItem /\ [][CallNextItem]_vars

----------------------------------------------------------------------------
\* The loop of Create on its own: every argument drawn from a bounded set.

\* The batch obtained when latest advances to each newly chosen item before
\* the next call of nextItem.  Result: [items, err].
RECURSIVE allocateAdvancing(_, _, _, _, _, _)
allocateAdvancing(used, items, n, min, max, latest) ==
    IF n <= 0 THEN [items |-> items, err |-> noError]
    ELSE LET r == nextItem(used, min, max, latest)
         IN  IF r.err # noError THEN [items |-> <<>>, err |-> r.err]
             ELSE allocateAdvancing(Append(used, r.item), Append(items, r.item),
                                    n - 1, min, max, r.item)

InitAllocate ==
    /\ storage = EmptyStorage
    /\ rng = <<0, MaxVal>>
    /\ ret = NoRet
    /\ returned = [n \in AllNamespaces |-> <<>>]
    /\ hist = NoHist
    /\ procs = NoProcs
    /\ call \in [used : UsedLists, min : -1 .. MaxVal, max : -1 .. MaxVal,
                 latest : -2 .. (MaxVal + 1), num : 0 .. MaxNum,
                 out : {Pending}, advancing : {Pending}]

CallAllocate ==
    /\ call.out = Pending
    /\ call' = [call EXCEPT
                   !.out = allocate(call.used, <<>>, call.num, call.min,
                                    call.max, call.latest),
                   !.advancing = allocateAdvancing(call.used, <<>>, call.num,
                                                   call.min, call.max, call.latest)]
    /\ UNCHANGED <<storage, rng, ret, returned, hist, procs>>

SpecAllocate == InitAllocate /\ [][CallAllocate]_vars

----------------------------------------------------------------------------
\* Several namespaces, one caller at a time, the same IDs in each namespace.

NextNS ==
    \/ \E namespace \in AllNamespaces, ID \in IDs, num \in 0 .. MaxNum :
           Create(namespace, ID, num)
    \/ \E namespace \in AllNamespaces, ID \in IDs : Delete(namespace, ID)

\* The ranges of two values: small enough for two namespaces side by side.
InitNS ==
    /\ Init
    /\ rng \in {<<lo, lo + 1>> : lo \in 0 .. (MaxVal - 1)}

SpecNS == InitNS /\ [][NextNS]_vars

----------------------------------------------------------------------------
\* Service.Create one storage operation at a time: the calls of two callers
\* interleave between any two storage operations.  Each caller calls once.

\* The return of caller p with the given items and error.
Return(p, items, err) ==
    /\ ret' = Ret("Create", procs[p].namespace, procs[p].ID, procs[p].num,
                  SortInts(procs[p].used), procs'[p].latest, <<>>, items, err)
    /\ returned' = [returned EXCEPT ![procs[p].namespace] = @ \o items]
    /\ hist' = HistAfter(ret')

\* The call and its List of the items of the namespace, stringsToInts included.
CreateList(p, namespace, ID, num) ==
    /\ procs[p].pc = "idle"
    /\ \E list \in Listings(StorageList(storage, ItemListKeyFormat(namespace))) :
       LET u == stringsToInts(list)
           q == [Idle EXCEPT !.namespace = namespace, !.ID = ID, !.num = num,
                             !.used = u.ints, !.err = u.err]
       IN  IF u.err # noError
           THEN /\ procs' = [procs EXCEPT ![p] = [q EXCEPT !.pc = "done"]]
                /\ ret' = Ret("Create", namespace, ID, num, <<>>,
                              latestItemException, <<>>, <<>>, u.err)
                /\ UNCHANGED <<returned, hist>>
           ELSE /\ procs' = [procs EXCEPT ![p] = [q EXCEPT !.pc = "search"]]
                /\ UNCHANGED <<ret, returned, hist>>
    /\ UNCHANGED <<storage, rng, call>>

\* The Search of the latest item, then the loop over nextItem, which touches
\* no storage.  With no item to persist create fails at items[len(items)-1].
\* The first nextItem that passes its checks sorts used in place.
CreateSearch(p) ==
    /\ procs[p].pc = "search"
    /\ LET l == StorageSearch(storage, LatestKeyFormat(procs[p].namespace))
           ls == IF l.found THEN l.value ELSE Itoa(latestItemException)
           latest == IF IsNumeral(ls) THEN Atoi(ls) ELSE 0
           a == allocate(procs[p].used, <<>>, procs[p].num, rng[1], rng[2], latest)
           err == IF ~IsNumeral(ls) THEN atoiError
                  ELSE IF a.err # noError THEN a.err
                  ELSE IF Len(a.items) = 0 THEN indexOutOfRange
                  ELSE noError
           used == IF /\ IsNumeral(ls) /\ procs[p].num > 0
                      /\ nextItem(procs[p].used, rng[1], rng[2], latest).err
                             # executionFailedError
                   THEN SortInts(procs[p].used)
                   ELSE procs[p].used
       IN  IF err # noError
           THEN /\ procs' = [procs EXCEPT ![p].pc = "done", ![p].latest = latest,
                                          ![p].used = used, ![p].err = err]
                /\ Return(p, <<>>, err)
           ELSE /\ procs' = [procs EXCEPT ![p].pc = "item", ![p].latest = latest,
                                          ![p].used = used,
                                          ![p].items = a.items, ![p].i = 1]
                /\ UNCHANGED <<ret, returned, hist>>
    /\ UNCHANGED <<storage, rng, call>>

\* create: the namespace record of the item at hand.
CreateWriteItem(p) ==
    /\ procs[p].pc = "item"
    /\ LET i == Itoa(procs[p].items[procs[p].i])
       IN  storage' = StorageCreate(storage, ItemKeyFormat(procs[p].namespace, i), i)
    /\ procs' = [procs EXCEPT ![p].pc = "id"]
    /\ UNCHANGED <<rng, ret, returned, call, hist>>

\* create: the ID record of the item at hand, then on to the next item.
CreateWriteID(p) ==
    /\ procs[p].pc = "id"
    /\ LET i == Itoa(procs[p].items[procs[p].i])
       IN  storage' = StorageCreate(storage,
                          IDKeyFormat(procs[p].namespace, procs[p].ID, i), i)
    /\ procs' = IF procs[p].i < Len(procs[p].items)
                THEN [procs EXCEPT ![p].pc = "item", ![p].i = @ + 1]
                ELSE [procs EXCEPT ![p].pc = "latest"]
    /\ UNCHANGED <<rng, ret, returned, call, hist>>

\* create: the latest item, then the return of the items.
CreateWriteLatest(p) ==
    /\ procs[p].pc = "latest"
    /\ storage' = StorageCreate(storage, LatestKeyFormat(procs[p].namespace),
                                Itoa(procs[p].items[Len(procs[p].items)]))
    /\ procs' = [procs EXCEPT ![p].pc = "done"]
    /\ Return(p, procs[p].items, noError)
    /\ UNCHANGED <<rng, call>>

InitRace ==
    /\ Init
    /\ rng = <<0, MaxVal>>

NextRace ==
    \/ \E p \in Procs, namespace \in Namespaces, ID \in IDs, num \in 0 .. MaxNum :
           CreateList(p, namespace, ID, num)
    \/ \E p \in Procs : CreateSearch(p)
    \/ \E p \in Procs : CreateWriteItem(p)
    \/ \E p \in Procs : CreateWriteID(p)
    \/ \E p \in Procs : CreateWriteLatest(p)

SpecRace == InitRace /\ [][NextRace]_vars

----------------------------------------------------------------------------
\* Service.Delete one storage operation at a time, interleaved with one
\* Service.Create.  Before the two calls begin, Creates run one at a time.

\* The return of caller p from its Delete.
DeleteReturn(p) ==
    /\ ret' = Ret("Delete", procs[p].namespace, procs[p].ID, 0, <<>>,
                  latestItemException, SortInts(procs[p].items), <<>>, noError)
    /\ returned' = [returned EXCEPT ![procs[p].namespace] = <<>>]
    /\ hist' = HistAfter(ret')

\* The call and its List of the items of the ID, stringsToInts included.
DeleteList(p, namespace, ID) ==
    /\ procs[p].pc = "idle"
    /\ \E list \in Listings(StorageList(storage, IDListKeyFormat(namespace, ID))) :
       LET u == stringsToInts(list)
           q == [Idle EXCEPT !.namespace = namespace, !.ID = ID,
                             !.items = u.ints, !.i = 1, !.err = u.err]
       IN  IF u.err # noError
           THEN /\ procs' = [procs EXCEPT ![p] = [q EXCEPT !.pc = "done"]]
                /\ ret' = Ret("Delete", namespace, ID, 0, <<>>,
                              latestItemException, <<>>, <<>>, u.err)
           ELSE /\ procs' = [procs EXCEPT ![p] =
                                [q EXCEPT !.pc = IF u.ints = <<>> THEN "delIDList"
                                                 ELSE "delItem"]]
                /\ UNCHANGED ret
    /\ UNCHANGED <<storage, rng, returned, call, hist>>

\* delete: the namespace record of the item at hand.
DeleteItem(p) ==
    /\ procs[p].pc = "delItem"
    /\ storage' = StorageDelete(storage, ItemKeyFormat(procs[p].namespace,
                                     Itoa(procs[p].items[procs[p].i])))
    /\ procs' = [procs EXCEPT ![p].pc = "delID"]
    /\ UNCHANGED <<rng, ret, returned, call, hist>>

\* Mutant: the ID record of the item at hand is left in place.
DeleteIDKeepsRecord(p) ==
    /\ procs[p].pc = "delID"
    /\ procs' = IF procs[p].i < Len(procs[p].items)
                THEN [procs EXCEPT ![p].pc = "delItem", ![p].i = @ + 1]
                ELSE [procs EXCEPT ![p].pc = "delIDList"]
    /\ UNCHANGED <<storage, rng, ret, returned, call, hist>>

\* delete: the ID record of the item at hand, then on to the next item.
DeleteID(p) ==
    /\ procs[p].pc = "delID"
    /\ storage' = StorageDelete(storage, IDKeyFormat(procs[p].namespace, procs[p].ID,
                                     Itoa(procs[p].items[procs[p].i])))
    /\ procs' = IF procs[p].i < Len(procs[p].items)
                THEN [procs EXCEPT ![p].pc = "delItem", ![p].i = @ + 1]
                ELSE [procs EXCEPT ![p].pc = "delIDList"]
    /\ UNCHANGED <<rng, ret, returned, call, hist>>

\* delete: the ID list key.
DeleteIDList(p) ==
    /\ procs[p].pc = "delIDList"
    /\ storage' = StorageDelete(storage,
                                IDListKeyFormat(procs[p].namespace, procs[p].ID))
    /\ procs' = [procs EXCEPT ![p].pc = "delCheck"]
    /\ UNCHANGED <<rng, ret, returned, call, hist>>

\* delete: the List of the items of the namespace; with items left the call
\* returns.
DeleteCheck(p) ==
    /\ procs[p].pc = "delCheck"
    /\ IF Cardinality(StorageList(storage, ItemListKeyFormat(procs[p].namespace))) = 0
       THEN /\ procs' = [procs EXCEPT ![p].pc = "delItemList"]
            /\ UNCHANGED <<ret, returned, hist>>
       ELSE /\ procs' = [procs EXCEPT ![p].pc = "done"]
            /\ DeleteReturn(p)
    /\ UNCHANGED <<storage, rng, call>>

\* delete: the item list key of a namespace that listed no item.
DeleteItemList(p) ==
    /\ procs[p].pc = "delItemList"
    /\ storage' = StorageDelete(storage, ItemListKeyFormat(procs[p].namespace))
    /\ procs' = [procs EXCEPT ![p].pc = "delLatest"]
    /\ UNCHANGED <<rng, ret, returned, call, hist>>

\* delete: the latest item of a namespace that listed no item, then the return.
DeleteLatest(p) ==
    /\ procs[p].pc = "delLatest"
    /\ storage' = StorageDelete(storage, LatestKeyFormat(procs[p].namespace))
    /\ procs' = [procs EXCEPT ![p].pc = "done"]
    /\ DeleteReturn(p)
    /\ UNCHANGED <<rng, call>>

\* A Create that runs to completion, with success, before the interleaved
\* calls begin.
CreateBefore(namespace, ID, num) ==
    /\ \A p \in Procs : procs[p].pc = "idle"
    /\ Create(namespace, ID, num)
    /\ ret'.err = noError

\* p1 calls Delete once, p2 calls Create once.
NextRaceDelete ==
    \/ \E namespace \in Namespaces, ID \in IDs, num \in 1 .. MaxNum :
           CreateBefore(namespace, ID, num)
    \/ \E namespace \in Namespaces, ID \in IDs : DeleteList("p1", namespace, ID)
    \/ DeleteItem("p1")
    \/ DeleteID("p1")
    \/ DeleteIDList("p1")
    \/ DeleteCheck("p1")
    \/ DeleteItemList("p1")
    \/ DeleteLatest("p1")
    \/ \E namespace \in Namespaces, ID \in IDs, num \in 1 .. MaxNum :
           CreateList("p2", namespace, ID, num)
    \/ CreateSearch("p2")
    \/ CreateWriteItem("p2")
    \/ CreateWriteID("p2")
    \/ CreateWriteLatest("p2")

\* The Delete lists its items in every order: the range is one value short of
\* the widest, which keeps the orders of a full range within reach.
InitRaceDelete ==
    /\ Init
    /\ rng = <<0, MaxVal - 1>>

SpecRaceDelete == InitRaceDelete /\ [][NextRaceDelete]_vars

----------------------------------------------------------------------------
\* Storage failures: the k-th storage operation of create or of delete fails
\* and the call returns its error at once.

\* Mutant: the ID record of an item is created before its namespace record.
RECURSIVE createItemsFailingIDFirst(_, _, _, _, _)
createItemsFailingIDFirst(d, namespace, ID, items, k) ==
    IF items = <<>> THEN [storage |-> d, k |-> k, err |-> noError]
    ELSE LET i == Itoa(Head(items))
             d1 == StorageCreate(d, IDKeyFormat(namespace, ID, i), i)
             d2 == StorageCreate(d1, ItemKeyFormat(namespace, i), i)
         IN  IF k = 1 THEN [storage |-> d, k |-> 0, err |-> storageError]
             ELSE IF k = 2 THEN [storage |-> d1, k |-> 0, err |-> storageError]
             ELSE createItemsFailingIDFirst(d2, namespace, ID, Tail(items), k - 2)

\* The loop of create when the k-th storage.Create fails.
\* Result: [storage, k, err], k the operations still to go before the failure.
RECURSIVE createItemsFailing(_, _, _, _, _)
createItemsFailing(d, namespace, ID, items, k) ==
    IF items = <<>> THEN [storage |-> d, k |-> k, err |-> noError]
    ELSE LET i == Itoa(Head(items))
             d1 == StorageCreate(d, ItemKeyFormat(namespace, i), i)
             d2 == StorageCreate(d1, IDKeyFormat(namespace, ID, i), i)
         IN  IF k = 1 THEN [storage |-> d, k |-> 0, err |-> storageError]
             ELSE IF k = 2 THEN [storage |-> d1, k |-> 0, err |-> storageError]
             ELSE createItemsFailing(d2, namespace, ID, Tail(items), k - 2)

\* Mutant: a failure in the loop is answered by deleting the latest item.
createFailingPurgesLatest(d, namespace, ID, items, k) ==
    LET c == createItemsFailing(d, namespace, ID, items, k)
    IN  IF c.err # noError
        THEN [storage |-> StorageDelete(c.storage, LatestKeyFormat(namespace)),
              err |-> c.err]
        ELSE IF Len(items) = 0 THEN [storage |-> c.storage, err |-> indexOutOfRange]
        ELSE IF c.k = 1 THEN [storage |-> c.storage, err |-> storageError]
        ELSE [storage |-> StorageCreate(c.storage, LatestKeyFormat(namespace),
                                        Itoa(items[Len(items)])),
              err |-> noError]

\* create when the k-th storage.Create fails.  Result: [storage, err].
createFailing(d, namespace, ID, items, k) ==
    LET c == createItemsFailing(d, namespace, ID, items, k)
    IN  IF c.err # noError THEN [storage |-> c.storage, err |-> c.err]
        ELSE IF Len(items) = 0 THEN [storage |-> c.storage, err |-> indexOutOfRange]
        ELSE IF c.k = 1 THEN [storage |-> c.storage, err |-> storageError]
        ELSE [storage |-> StorageCreate(c.storage, LatestKeyFormat(namespace),
                                        Itoa(items[Len(items)])),
              err |-> noError]

\* Mutant: the ID record of an item is deleted before its namespace record.
RECURSIVE deleteItemsFailingIDFirst(_, _, _, _, _)
deleteItemsFailingIDFirst(d, namespace, ID, items, k) ==
    IF items = <<>> THEN [storage |-> d, k |-> k, err |-> noError]
    ELSE LET i == Itoa(Head(items))
             d1 == StorageDelete(d, IDKeyFormat(namespace, ID, i))
             d2 == StorageDelete(d1, ItemKeyFormat(namespace, i))
         IN  IF k = 1 THEN [storage |-> d, k |-> 0, err |-> storageError]
             ELSE IF k = 2 THEN [storage |-> d1, k |-> 0, err |-> storageError]
             ELSE deleteItemsFailingIDFirst(d2, namespace, ID, Tail(items), k - 2)

\* The loop of delete when the k-th storage.Delete fails.
RECURSIVE deleteItemsFailing(_, _, _, _, _)
deleteItemsFailing(d, namespace, ID, items, k) ==
    IF items = <<>> THEN [storage |-> d, k |-> k, err |-> noError]
    ELSE LET i == Itoa(Head(items))
             d1 == StorageDelete(d, ItemKeyFormat(namespace, i))
             d2 == StorageDelete(d1, IDKeyFormat(namespace, ID, i))
         IN  IF k = 1 THEN [storage |-> d, k |-> 0, err |-> storageError]
             ELSE IF k = 2 THEN [storage |-> d1, k |-> 0, err |-> storageError]
             ELSE deleteItemsFailing(d2, namespace, ID, Tail(items), k - 2)

\* delete when the k-th storage.Delete fails.  Result: [storage, err].
deleteFailing(d, namespace, ID, items, k) ==
    LET c == deleteItemsFailing(d, namespace, ID, items, k)
        d2 == StorageDelete(c.storage, IDListKeyFormat(namespace, ID))
        list == StorageList(d2, ItemListKeyFormat(namespace))
        d3 == StorageDelete(d2, ItemListKeyFormat(namespace))
    IN  IF c.err # noError THEN [storage |-> c.storage, err |-> c.err]
        ELSE IF c.k = 1 THEN [storage |-> c.storage, err |-> storageError]
        ELSE IF Cardinality(list) # 0 THEN [storage |-> d2, err |-> noError]
        ELSE IF c.k = 2 THEN [storage |-> d2, err |-> storageError]
        ELSE IF c.k = 3 THEN [storage |-> d3, err |-> storageError]
        ELSE [storage |-> StorageDelete(d3, LatestKeyFormat(namespace)),
              err |-> noError]

\* Service.Create when the k-th storage.Create of create fails, list being
\* what the List of the items of the namespace returns.
CreateFailingCall(d, namespace, ID, num, min, max, k, list) ==
    LET u == stringsToInts(list)
        l == StorageSearch(d, LatestKeyFormat(namespace))
        ls == IF l.found THEN l.value ELSE Itoa(latestItemException)
        latest == IF IsNumeral(ls) THEN Atoi(ls) ELSE 0
        a == allocate(u.ints, <<>>, num, min, max, latest)
        c == createFailing(d, namespace, ID, a.items, k)
        R(items, err) == Ret("Create", namespace, ID, num, SortInts(u.ints), latest,
                             <<>>, items, err)
    IN  IF u.err # noError THEN [storage |-> d, ret |-> R(<<>>, u.err)]
        ELSE IF ~IsNumeral(ls) THEN [storage |-> d, ret |-> R(<<>>, atoiError)]
        ELSE IF a.err # noError THEN [storage |-> d, ret |-> R(<<>>, a.err)]
        ELSE IF c.err # noError THEN [storage |-> c.storage, ret |-> R(<<>>, c.err)]
        ELSE [storage |-> c.storage, ret |-> R(a.items, noError)]

\* Service.Delete when the k-th storage.Delete of delete fails, list being
\* what the List of the items of the ID returns: delete removes the items in
\* the order of the list.
DeleteFailingCall(d, namespace, ID, k, list) ==
    LET u == stringsToInts(list)
        c == deleteFailing(d, namespace, ID, u.ints, k)
        R(err) == Ret("Delete", namespace, ID, 0, <<>>, latestItemException,
                      SortInts(u.ints), <<>>, err)
    IN  IF u.err # noError THEN [storage |-> d, ret |-> R(u.err)]
        ELSE [storage |-> c.storage, ret |-> R(c.err)]

\* The range of the calls that meet storage failures: two values.
FailRange == <<0, 1>>

\* The storage operations one call issues at most: two per item and three more.
MaxOps == 2 * (FailRange[2] - FailRange[1] + 1) + 3

\* A Create whose k-th write fails.  As in Create, the outcome is the same for
\* every order of the list.
CreateFails(namespace, ID, num, k) ==
    \E out \in {CreateFailingCall(storage, namespace, ID, num, rng[1], rng[2], k,
                       Listing(StorageList(storage, ItemListKeyFormat(namespace))))} :
        /\ out.ret.err = storageError
        /\ storage' = out.storage
        /\ ret' = out.ret
        /\ hist' = HistAfter(out.ret)
        /\ UNCHANGED <<rng, returned, call, procs>>

\* A Delete whose k-th storage.Delete fails, for every order in which the
\* storage lists the items: the order decides which records are gone.
DeleteFails(namespace, ID, k) ==
    \E out \in {DeleteFailingCall(storage, namespace, ID, k, list) :
                   list \in Listings(StorageList(storage, IDListKeyFormat(namespace, ID)))} :
        /\ out.ret.err = storageError
        /\ storage' = out.storage
        /\ ret' = out.ret
        /\ returned' = [returned EXCEPT ![namespace] = <<>>]
        /\ hist' = HistAfter(out.ret)
        /\ UNCHANGED <<rng, call, procs>>

InitFail ==
    /\ Init
    /\ rng = FailRange

NextFail ==
    \/ Next
    \/ \E namespace \in Namespaces, ID \in IDs, num \in 1 .. MaxNum, k \in 1 .. MaxOps :
           CreateFails(namespace, ID, num, k)
    \/ \E namespace \in Namespaces, ID \in IDs, k \in 1 .. MaxOps :
           DeleteFails(namespace, ID, k)

SpecFail == InitFail /\ [][NextFail]_vars

----------------------------------------------------------------------------
\* What the storage d records.

\* The items of a namespace.
ItemsIn(d, namespace) ==
    LET S == StorageList(d, ItemListKeyFormat(namespace))
    IN  IF \E p \in S : ~IsNumeral(Join(p)) THEN {} ELSE {Atoi(Join(p)) : p \in S}

\* The items of an ID in a namespace.
OwnedIn(d, namespace, ID) ==
    LET S == StorageList(d, IDListKeyFormat(namespace, ID))
    IN  IF \E p \in S : ~IsNumeral(Join(p)) THEN {} ELSE {Atoi(Join(p)) : p \in S}

\* The latest item of a namespace.
LatestIn(d, namespace) == StorageSearch(d, LatestKeyFormat(namespace))

\* The caller's boundaries pass the checks of nextItem.
ValidBounds == rng[1] >= 0 /\ rng[2] >= 0 /\ rng[1] < rng[2]

\* The integers of [min, max] not in U, and those of them above l.
Free(U) == {v \in rng[1] .. rng[2] : v \notin U}
FreeAbove(U, l) == {v \in (l + 1) .. rng[2] : v \notin U}

NoDuplicates(s) == \A i, j \in 1 .. Len(s) : i # j => s[i] # s[j]

\* The last call was a Create that returned items.
Created == ret.op = "Create" /\ ret.err = noError

----------------------------------------------------------------------------
\* C1: after any sequence of completed Create and Delete calls of one caller
\* with the same boundaries, no integer is held by two different IDs of a
\* namespace.
C1_OneOwnerPerItem ==
    \A namespace \in Namespaces : \A a, b \in IDs :
        a # b => OwnedIn(storage, namespace, a) \cap OwnedIn(storage, namespace, b) = {}

\* C1 witness: after a Delete, a Create allocated while items were in use, and
\* both IDs hold items.
C1_Witness ==
    \E namespace \in Namespaces :
        /\ ValidBounds /\ Created /\ ret.namespace = namespace
        /\ ret.used # <<>>
        /\ returned[namespace] = ret.items
        /\ \A a \in IDs : OwnedIn(storage, namespace, a) # {}

\* C2: a Create with valid boundaries and num >= 1 that asks for more values
\* than are free in [min, max] fails with capacityReachedError and leaves the
\* namespace's items, every ID's items and the latest item as they were.
C2_CapacityReachedWritesNothing ==
    [][(/\ ret'.op = "Create"
        /\ ValidBounds
        /\ ret'.num >= 1
        /\ ret'.num > Cardinality(Free(ItemsIn(storage, ret'.namespace))))
       => (/\ ret'.err = capacityReachedError
           /\ ret'.items = <<>>
           /\ storage' = storage
           /\ \A namespace \in Namespaces :
                  /\ ItemsIn(storage', namespace) = ItemsIn(storage, namespace)
                  /\ LatestIn(storage', namespace) = LatestIn(storage, namespace)
                  /\ \A a \in IDs : OwnedIn(storage', namespace, a)
                                      = OwnedIn(storage, namespace, a))]_vars

\* C2 witness: a Create failed for capacity although some of the values it
\* asked for were free.
C2_Witness ==
    /\ ValidBounds
    /\ ret.op = "Create" /\ ret.err = capacityReachedError
    /\ Free(Range(ret.used)) # {}
    /\ ret.num > Cardinality(Free(Range(ret.used)))
    /\ ItemsIn(storage, ret.namespace) = Range(ret.used)

\* C3: the values returned by successful Creates on a namespace with no
\* Delete in between are pairwise distinct, within a batch and across
\* batches and IDs.
C3_ReturnedDistinct ==
    \A namespace \in Namespaces : NoDuplicates(returned[namespace])

\* C3 witness: two batches of more than one value, for different IDs, with no
\* Delete in between.
C3_Witness ==
    \E namespace \in Namespaces :
        /\ Created /\ ret.namespace = namespace
        /\ Len(ret.items) >= 2
        /\ Len(returned[namespace]) >= Len(ret.items) + 2
        /\ \A a \in IDs : OwnedIn(storage, namespace, a) # {}
        /\ Range(returned[namespace]) \ OwnedIn(storage, namespace, ret.ID) # {}

\* C4: a successful Create returns exactly num integers, in the order
\* nextItem chose them, each within [min, max], pairwise distinct and none in
\* the namespace's used list when the call began.
C4_CreateResult ==
    Created =>
        /\ ret.num >= 1
        /\ Len(ret.items) = ret.num
        /\ NoDuplicates(ret.items)
        /\ \A i \in 1 .. Len(ret.items) :
               /\ ret.items[i] \in rng[1] .. rng[2]
               /\ ret.items[i] \notin Range(ret.used)
               /\ ret.items[i] =
                      nextItem(ret.used \o SubSeq(ret.items, 1, i - 1),
                               rng[1], rng[2], ret.latest).item

\* C4 witness: a batch of three that wraps around max.
C4_Witness ==
    /\ Created
    /\ ret.num = 3
    /\ ret.used # <<>>
    /\ \E i \in 1 .. 2 : ret.items[i] > ret.items[i + 1]

\* C5: with valid boundaries, the number of integers allocated in a
\* namespace is at most max - min + 1.
C5_CapacityBound ==
    ValidBounds =>
        \A namespace \in Namespaces :
            Cardinality(ItemsIn(storage, namespace)) <= rng[2] - rng[1] + 1

\* C5 witness: the range is full again after a Delete freed values of it.
C5_Witness ==
    \E namespace \in Namespaces :
        /\ ValidBounds /\ Created /\ ret.namespace = namespace
        /\ rng[2] - rng[1] + 1 >= 3
        /\ Cardinality(ItemsIn(storage, namespace)) = rng[2] - rng[1] + 1
        /\ Len(returned[namespace]) < rng[2] - rng[1] + 1

\* C6: of two consecutive successful Creates on a namespace with no Delete in
\* between, where L is the last value of the first batch, the second batch
\* starts with the smallest free integer of L+1..max when there is one, and
\* only otherwise with the smallest free integer of min..max.
C6_ContinuesAfterLast ==
    \A namespace \in Namespaces :
        (/\ Created /\ ret.namespace = namespace
         /\ Len(returned[namespace]) > Len(ret.items))
        => LET L == returned[namespace][Len(returned[namespace]) - Len(ret.items)]
               U == Range(ret.used)
           IN  ret.items[1] = IF FreeAbove(U, L) # {} THEN Min(FreeAbove(U, L))
                              ELSE Min(Free(U))

\* C6 witness: the second Create continued above L although a lower value was
\* free.
C6_Witness ==
    \E namespace \in Namespaces :
        /\ Created /\ ret.namespace = namespace
        /\ Len(returned[namespace]) > Len(ret.items)
        /\ LET L == returned[namespace][Len(returned[namespace]) - Len(ret.items)]
           IN  /\ ret.items[1] > L
               /\ \E v \in Free(Range(ret.used)) : v < L

\* C7: a Delete that removes the last items of a namespace deletes the latest
\* item with them, and the next Create on the namespace starts at min as on a
\* namespace never used.
C7_EmptiedNamespaceRestartsAtMin ==
    [][/\ (ret'.op = "Delete" /\ ItemsIn(storage', ret'.namespace) = {})
          => ~LatestIn(storage', ret'.namespace).found
       /\ (/\ ret.op = "Delete" /\ ret.owned # <<>>
           /\ ItemsIn(storage, ret.namespace) = {}
           /\ ret'.op = "Create" /\ ret'.namespace = ret.namespace
           /\ ret'.err = noError)
          => (/\ ret'.latest = latestItemException
              /\ ret'.items = [i \in 1 .. ret'.num |-> rng[1] + i - 1]
              /\ ret'.items = CreateCall(EmptyStorage, ret'.namespace, ret'.ID,
                                         ret'.num, rng[1], rng[2], <<>>).ret.items)]_vars

\* C7 witness: a Delete removed the last items of a namespace whose latest
\* item was above min.
C7_Witness ==
    /\ ret.op = "Delete"
    /\ Len(ret.owned) >= 2
    /\ ItemsIn(storage, ret.namespace) = {}
    /\ ~LatestIn(storage, ret.namespace).found

\* C8 (as claimed): Delete never purges the latest item: it is the same
\* after a Delete as before it.
C8_DeleteKeepsLatest ==
    [][ret'.op = "Delete"
       => LatestIn(storage', ret'.namespace) = LatestIn(storage, ret'.namespace)]_vars

\* C9: a Create on a namespace that has a latest item does not hand out a
\* free value at or below it as long as a free value above it exists; once
\* none is left above, it wraps and returns the smallest free values from min.
C9_FreedValuesOnlyAfterWrap ==
    (Created /\ ret.latest # latestItemException) =>
        \A i \in 1 .. Len(ret.items) :
            LET U == Range(ret.used) \cup {ret.items[j] : j \in 1 .. (i - 1)}
            IN  IF FreeAbove(U, ret.latest) # {}
                THEN ret.items[i] = Min(FreeAbove(U, ret.latest))
                ELSE ret.items[i] = Min(Free(U))

\* C9 witness: while other items remained, a batch passed over a free value
\* below the latest item, reached max and wrapped to take it.
C9_Witness ==
    /\ Created
    /\ ret.used # <<>>
    /\ ret.latest # latestItemException
    /\ Len(ret.items) >= 2
    /\ ret.items[1] > ret.latest
    /\ ret.items[2] < ret.latest
    /\ ret.items[2] \in Free(Range(ret.used))

\* The arguments of the direct call pass the checks of nextItem.
ValidCall ==
    /\ call.min >= 0 /\ call.max >= 0 /\ call.min < call.max
    /\ (call.latest = latestItemException
        \/ (call.min <= call.latest /\ call.latest <= call.max))

\* C10: for valid arguments nextItem returns the smallest integer of
\* latest+1..max not in used when latest is not -1 and there is one, otherwise
\* the smallest integer of min..max not in used, and fails with
\* capacityReachedError exactly when every integer of [min, max] is in used.
C10_NextItem ==
    (call.out # Pending /\ call.out.err # "none" /\ ValidCall) =>
        LET U == Range(call.used)
            above == {v \in (call.latest + 1) .. call.max : v \notin U}
            all == {v \in call.min .. call.max : v \notin U}
        IN  /\ (call.latest # latestItemException /\ above # {})
                => call.out = [item |-> Min(above), err |-> noError]
            /\ (~(call.latest # latestItemException /\ above # {}) /\ all # {})
                => call.out = [item |-> Min(all), err |-> noError]
            /\ (call.out.err = capacityReachedError) <=> (all = {})
            /\ call.out.err \in {noError, capacityReachedError}
            /\ call.out.err = noError
                => (call.out.item \in call.min .. call.max /\ call.out.item \notin U)

\* C10 witness: used is not sorted, nothing is free above latest, and the
\* call wrapped to a free value below it.
C10_Witness ==
    /\ call.out # Pending /\ ValidCall
    /\ Len(call.used) >= 2 /\ call.used[1] > call.used[2]
    /\ call.latest # latestItemException
    /\ call.out.err = noError
    /\ call.out.item < call.latest
    /\ call.out.item > call.min

\* C11: nextItem fails with executionFailedError if and only if min < 0, or
\* max < 0, or min >= max, or latest is not the sentinel -1 and lies outside
\* [min, max]; the checks come before the search, so with such arguments the
\* error is executionFailedError also when every integer of [min, max] is in
\* used.
C11_ExecutionFailedIffInvalid ==
    call.out # Pending =>
        /\ (call.out.err = executionFailedError)
               <=> (\/ call.min < 0
                    \/ call.max < 0
                    \/ call.min >= call.max
                    \/ (/\ call.latest # latestItemException
                        /\ (call.latest < call.min \/ call.latest > call.max)))
        /\ call.out.err = executionFailedError => call.out.item = 0

\* C11 witness: latest is above max, every integer of [min, max] is in used,
\* and the call failed with executionFailedError.
C11_Witness ==
    /\ call.out # Pending
    /\ call.min >= 0 /\ call.min < call.max
    /\ call.latest > call.max
    /\ \A v \in call.min .. call.max : containsInt(call.used, v)
    /\ call.out.err = executionFailedError

\* C12 (as claimed): every Create whose boundaries violate min >= 0, max >= 0
\* or min < max is rejected with executionFailedError, whatever num is, and
\* leaves the storage as it was.
C12_InvalidBoundsRejected ==
    [][(ret'.op = "Create" /\ ~ValidBounds)
       => (ret'.err = executionFailedError /\ storage' = storage)]_vars

\* C13: after a successful Delete(namespace, ID) the ID holds no items in the
\* namespace, none of the values it held is in the namespace's item set, and
\* the item set of every other ID of the namespace is what it was.
C13_DeleteFreesOwnItemsOnly ==
    [][(ret'.op = "Delete" /\ ret'.err = noError)
       => (/\ OwnedIn(storage', ret'.namespace, ret'.ID) = {}
           /\ ItemsIn(storage', ret'.namespace)
                  \cap OwnedIn(storage, ret'.namespace, ret'.ID) = {}
           /\ \A a \in IDs \ {ret'.ID} :
                  OwnedIn(storage', ret'.namespace, a)
                      = OwnedIn(storage, ret'.namespace, a))]_vars

\* C13 witness: a Delete released several values of one ID while the other
\* ID keeps its items.
C13_Witness ==
    /\ ret.op = "Delete" /\ ret.err = noError
    /\ Len(ret.owned) >= 2
    /\ OwnedIn(storage, ret.namespace, ret.ID) = {}
    /\ \E a \in IDs \ {ret.ID} :
           /\ OwnedIn(storage, ret.namespace, a) # {}
           /\ OwnedIn(storage, ret.namespace, a) = ItemsIn(storage, ret.namespace)

\* C14: a Delete(namespace, ID) for an ID that holds no items succeeds and
\* leaves the items of every ID, the namespace's item set and the latest item
\* unchanged; a Delete repeated right after a Delete changes nothing more.
C14_DeleteOfNothingIsNoOp ==
    [][/\ (ret'.op = "Delete" /\ OwnedIn(storage, ret'.namespace, ret'.ID) = {})
          => (/\ ret'.err = noError
              /\ storage' = storage
              /\ \A namespace \in Namespaces :
                     /\ ItemsIn(storage', namespace) = ItemsIn(storage, namespace)
                     /\ LatestIn(storage', namespace) = LatestIn(storage, namespace)
                     /\ \A a \in IDs : OwnedIn(storage', namespace, a)
                                         = OwnedIn(storage, namespace, a))
       /\ ret'.op = "Delete"
          => \A list \in Listings(StorageList(storage',
                                   IDListKeyFormat(ret'.namespace, ret'.ID))) :
                 /\ DeleteCall(storage', ret'.namespace, ret'.ID, list).storage = storage'
                 /\ DeleteCall(storage', ret'.namespace, ret'.ID, list).ret.err = noError]_vars

\* C14 witness: a Delete for an ID without items ran on a namespace in which
\* the other ID holds items.
C14_Witness ==
    /\ ret.op = "Delete" /\ ret.err = noError
    /\ ret.owned = <<>>
    /\ ItemsIn(storage, ret.namespace) # {}
    /\ LatestIn(storage, ret.namespace).found

----------------------------------------------------------------------------
\* The records of storage d that belong to a namespace.
OnlyNamespace(d, namespace) ==
    [k \in {k \in DOMAIN d : k[2] = namespace} |-> d[k]]

\* C15: a Create or Delete on one namespace leaves the item set, every owner's
\* set and the cursor of every other namespace as they were; its result is the
\* one it has on a storage holding that namespace alone; and the first
\* successful Create of a namespace starts at min, whatever the other
\* namespaces hold and whichever IDs they share.
C15_NamespacesIsolated ==
    [][ /\ \A n \in AllNamespaces \ {ret'.namespace} :
              /\ ItemsIn(storage', n) = ItemsIn(storage, n)
              /\ \A a \in IDs : OwnedIn(storage', n, a) = OwnedIn(storage, n, a)
              /\ LatestIn(storage', n) = LatestIn(storage, n)
        /\ ret'.op = "Create" =>
              LET d == OnlyNamespace(storage, ret'.namespace)
              IN  \A list \in Listings(StorageList(d, ItemListKeyFormat(ret'.namespace))) :
                      ret' = CreateCall(d, ret'.namespace, ret'.ID, ret'.num,
                                        rng[1], rng[2], list).ret
        /\ ret'.op = "Delete" =>
              LET d == OnlyNamespace(storage, ret'.namespace)
              IN  \A list \in Listings(StorageList(d, IDListKeyFormat(ret'.namespace,
                                                                      ret'.ID))) :
                      ret' = DeleteCall(d, ret'.namespace, ret'.ID, list).ret
        /\ (ret'.op = "Create" /\ ret'.err = noError
            /\ hist.last[ret'.namespace] = latestItemException) =>
              ret'.items[1] = rng[1]
      ]_vars

\* The first Create on ns2 has just returned for an ID that holds items in ns1
\* too, and the two namespaces have different cursors.
C15_Witness ==
    /\ Created
    /\ ret.namespace = "ns2"
    /\ returned["ns2"] = ret.items
    /\ ret.items[1] = rng[1]
    /\ OwnedIn(storage, "ns1", ret.ID) # {}
    /\ OwnedIn(storage, "ns2", ret.ID) # {}
    /\ LatestIn(storage, "ns1").found
    /\ LatestIn(storage, "ns1") # LatestIn(storage, "ns2")

----------------------------------------------------------------------------
\* C16: Search returns the items the ID holds (everything its Create calls
\* returned since its last Delete) in ascending order, and fails with
\* itemsNotFoundError exactly when it holds none.
C16_SearchReturnsHeld ==
    ret.op = "Search" =>
        LET H == hist.held[ret.namespace][ret.ID]
        IN  /\ ret.err = itemsNotFoundError <=> H = {}
            /\ H = {} => ret.items = <<>>
            /\ H # {} => ret.err = noError /\ ret.items = Ascending(H)

\* Search has returned two items or more of which the smallest is the one
\* allocated last: the ID did not receive them in ascending order.
C16_Witness ==
    /\ ret.op = "Search"
    /\ ret.err = noError
    /\ Len(ret.items) >= 2
    /\ ret.items[1] = hist.last[ret.namespace]

----------------------------------------------------------------------------
\* A Search that follows a call on the same namespace and ID.
SearchFollows(op) ==
    /\ ret.op = op
    /\ ret.err = noError
    /\ ret'.op = "Search"
    /\ ret'.namespace = ret.namespace
    /\ ret'.ID = ret.ID

\* C17 as stated: a Search after a successful Create returns exactly the
\* items that Create returned, in ascending order, and a Search after a
\* successful Delete fails with itemsNotFoundError.
C17_SearchReturnsJustAllocated ==
    [][ /\ SearchFollows("Create") =>
               ret'.err = noError /\ ret'.items = SortInts(ret.items)
        /\ SearchFollows("Delete") => ret'.err = itemsNotFoundError
      ]_vars

\* C17: a Search after a successful Create returns, in ascending order, the
\* items that Create returned together with the items the ID held before it,
\* exactly the returned items when it held none before; a Search after a
\* successful Delete fails with itemsNotFoundError.
C17_SearchAfterCreateOrDelete ==
    [][ /\ SearchFollows("Create") =>
               LET before == hist.held[ret.namespace][ret.ID] \ Range(ret.items)
               IN  /\ ret'.err = noError
                   /\ ret'.items = Ascending(Range(ret.items) \cup before)
                   /\ Len(ret'.items) = ret.num + Cardinality(before)
                   /\ before = {} => ret'.items = SortInts(ret.items)
        /\ SearchFollows("Delete") =>
               ret'.err = itemsNotFoundError /\ ret'.items = <<>>
      ]_vars

\* Search has returned the items of an ID whose Create was the last to
\* succeed and which received them in two batches or more: between two of
\* them the namespace returned an item to another ID.
C17_Witness ==
    /\ ret.op = "Search"
    /\ ret.err = noError
    /\ hist.last[ret.namespace] \in Range(ret.items)
    /\ \E i, j, k \in 1 .. Len(returned[ret.namespace]) :
           /\ i < j /\ j < k
           /\ returned[ret.namespace][i] \in Range(ret.items)
           /\ returned[ret.namespace][j] \notin Range(ret.items)
           /\ returned[ret.namespace][k] \in Range(ret.items)

----------------------------------------------------------------------------
\* Caller p has returned from its Create without error.
Returned(p) == procs[p].pc = "done" /\ procs[p].err = noError

\* C18: each of two interleaved Creates returns num distinct values outside
\* the used list it read and persists them for its ID; when both read the
\* same used list and the same latest item for the same count, they return
\* the same values, which the storage then records for both IDs.
C18_SameSnapshotSameItems ==
    /\ \A p \in Procs : Returned(p) =>
           /\ Len(procs[p].items) = procs[p].num
           /\ NoDuplicates(procs[p].items)
           /\ Range(procs[p].items) \cap Range(procs[p].used) = {}
           /\ Range(procs[p].items)
                  \subseteq OwnedIn(storage, procs[p].namespace, procs[p].ID)
           /\ Range(procs[p].items) \subseteq ItemsIn(storage, procs[p].namespace)
    /\ \A p, q \in Procs :
           (/\ Returned(p) /\ Returned(q)
            /\ procs[p].namespace = procs[q].namespace
            /\ Range(procs[p].used) = Range(procs[q].used)
            /\ procs[p].latest = procs[q].latest
            /\ procs[p].num = procs[q].num) =>
               procs[p].items = procs[q].items

\* Both callers have returned, for two IDs of one namespace, after reading
\* the same used list; they returned a common value and the storage records
\* it for both IDs.
C18_Witness ==
    /\ Returned("p1") /\ Returned("p2")
    /\ procs["p1"].namespace = procs["p2"].namespace
    /\ procs["p1"].ID # procs["p2"].ID
    /\ Range(procs["p1"].used) = Range(procs["p2"].used)
    /\ Range(procs["p1"].items) \cap Range(procs["p2"].items) # {}
    /\ OwnedIn(storage, procs["p1"].namespace, procs["p1"].ID)
           \cap OwnedIn(storage, procs["p2"].namespace, procs["p2"].ID) # {}

----------------------------------------------------------------------------
\* C19: after every call the latest item of a namespace, when present, is the
\* last value of the most recent successful Create batch on it; a Delete that
\* leaves items in the namespace and a Create that fails leave it as it was.
C19_LatestIsLastOfLastBatch ==
    [][ \A n \in Namespaces :
            /\ LatestIn(storage', n).found =>
                   LatestIn(storage', n).value = Itoa(hist'.last[n])
            /\ (ret'.op = "Delete" /\ ItemsIn(storage', n) # {}) =>
                   LatestIn(storage', n) = LatestIn(storage, n)
            /\ (ret'.op = "Create" /\ ret'.err # noError) =>
                   LatestIn(storage', n) = LatestIn(storage, n)
      ]_vars

\* A Delete has left items in the namespace and the latest item is a value
\* that is no longer allocated and lies below an allocated one.
C19_Witness ==
    /\ ret.op = "Delete"
    /\ ret.err = noError
    /\ ret.owned # <<>>
    /\ LatestIn(storage, ret.namespace).found
    /\ LET l == Atoi(LatestIn(storage, ret.namespace).value)
       IN  /\ l = hist.last[ret.namespace]
           /\ l \notin ItemsIn(storage, ret.namespace)
           /\ \E w \in ItemsIn(storage, ret.namespace) : w > l

----------------------------------------------------------------------------
\* C20: after every completed Create or Delete the items the storage records
\* for an ID are items it records for the namespace.
C20_OwnedSubsetOfNamespace ==
    \A n \in Namespaces, a \in IDs :
        OwnedIn(storage, n, a) \subseteq ItemsIn(storage, n)

\* Two IDs hold items after Creates and a Delete: each holds a proper,
\* non-empty part of the items of the namespace.
C20_Witness ==
    /\ Created
    /\ hist.held[ret.namespace][ret.ID] # Range(ret.items)
    /\ \A a \in IDs :
           /\ OwnedIn(storage, ret.namespace, a) # {}
           /\ OwnedIn(storage, ret.namespace, a) # ItemsIn(storage, ret.namespace)
    /\ Len(returned[ret.namespace])
           < Cardinality(ItemsIn(storage, ret.namespace))

----------------------------------------------------------------------------
\* C21: a successful Create only adds records: the items of its ID become the
\* items it had plus the returned ones, the items of the namespace become the
\* items it had plus the returned ones, the items of every other ID stay as
\* they were, and every record other than the latest item keeps its value.
C21_CreateOnlyAdds ==
    [][ (ret'.op = "Create" /\ ret'.err = noError) =>
            LET n == ret'.namespace
                new == Range(ret'.items)
            IN  /\ OwnedIn(storage', n, ret'.ID) = OwnedIn(storage, n, ret'.ID) \cup new
                /\ ItemsIn(storage', n) = ItemsIn(storage, n) \cup new
                /\ new \cap ItemsIn(storage, n) = {}
                /\ \A a \in IDs \ {ret'.ID} :
                       OwnedIn(storage', n, a) = OwnedIn(storage, n, a)
                /\ \A k \in (DOMAIN storage) \ {LatestKeyFormat(n)} :
                       k \in DOMAIN storage' /\ storage'[k] = storage[k]
      ]_vars

\* The second Create of two items for one ID has returned and the ID holds
\* all four.
C21_Witness ==
    /\ Created
    /\ ret.num = 2
    /\ Len(ret.used) = 2
    /\ Cardinality(OwnedIn(storage, ret.namespace, ret.ID)) = 4
    /\ Range(ret.items) \subseteq OwnedIn(storage, ret.namespace, ret.ID)
    /\ Range(ret.used) \subseteq OwnedIn(storage, ret.namespace, ret.ID)

----------------------------------------------------------------------------
\* C22: after every completed call the latest item of a namespace is present
\* exactly when the namespace has items.
C22_LatestIffItems ==
    \A n \in Namespaces :
        LatestIn(storage, n).found <=> ItemsIn(storage, n) # {}

\* A Delete has removed the last items of a namespace that had a latest item:
\* the namespace has no item and no latest item.
C22_Witness ==
    /\ ret.op = "Delete"
    /\ ret.err = noError
    /\ ret.owned # <<>>
    /\ hist.last[ret.namespace] # latestItemException
    /\ ItemsIn(storage, ret.namespace) = {}
    /\ ~LatestIn(storage, ret.namespace).found

----------------------------------------------------------------------------
\* The items of any ID of a namespace.
OwnedByAny(d, namespace) == UNION {OwnedIn(d, namespace, a) : a \in IDs}

\* The step is a Create that a failing storage.Create has ended.
CreateFailed == ret'.op = "Create" /\ ret'.err = storageError

\* C23: a Create ended by a failing write returns no item and removes
\* nothing: every record it found, the latest item included, is still there
\* with its value, and the records written before the failure stay, among
\* them at most one namespace record whose ID record was not written.
C23_FailedCreateKeepsWhatItWrote ==
    [][ CreateFailed =>
            LET n == ret'.namespace
            IN  /\ ret'.items = <<>>
                /\ \A k \in DOMAIN storage :
                       k \in DOMAIN storage' /\ storage'[k] = storage[k]
                /\ LatestIn(storage', n) = LatestIn(storage, n)
                /\ ItemsIn(storage, n) \subseteq ItemsIn(storage', n)
                /\ Cardinality((ItemsIn(storage', n) \ ItemsIn(storage, n))
                               \ OwnedByAny(storage', n)) <= 1
      ]_vars

\* A Create has failed and left a value it chose recorded for the namespace
\* and for no ID, the latest item being the one it read.
C23_Witness ==
    /\ ret.op = "Create"
    /\ ret.err = storageError
    /\ LatestIn(storage, ret.namespace).found
    /\ LatestIn(storage, ret.namespace).value = Itoa(ret.latest)
    /\ \E v \in ItemsIn(storage, ret.namespace) :
           /\ v \notin Range(ret.used)
           /\ v \notin OwnedByAny(storage, ret.namespace)

----------------------------------------------------------------------------
\* The values of a namespace recorded for an ID and not for the namespace.
OwnerOnly(d, namespace) == OwnedByAny(d, namespace) \ ItemsIn(d, namespace)

\* C24 as stated: a Create ended by a failing write has a point of failure
\* that leaves a value recorded for an ID and not for the namespace.
C24_FailedCreateLeavesOwnerOnly ==
    [][ CreateFailed =>
            \E k \in 1 .. MaxOps :
            \E list \in Listings(StorageList(storage, ItemListKeyFormat(ret'.namespace))) :
                LET c == CreateFailingCall(storage, ret'.namespace, ret'.ID,
                                           ret'.num, rng[1], rng[2], k, list)
                IN  /\ c.ret.err = storageError
                    /\ ~(OwnerOnly(c.storage, ret'.namespace)
                             \subseteq OwnerOnly(storage, ret'.namespace))
      ]_vars

\* C24: a Create ended by a failing write leaves no value recorded for an ID
\* and not for the namespace that was not so before: the ID records it wrote
\* are of values whose namespace record it wrote first.
C24_FailedCreateLeavesNoOwnerOnly ==
    [][ CreateFailed =>
            LET n == ret'.namespace
            IN  /\ OwnerOnly(storage', n) \subseteq OwnerOnly(storage, n)
                /\ (OwnedIn(storage', n, ret'.ID) \ OwnedIn(storage, n, ret'.ID))
                       \subseteq ItemsIn(storage', n)
                /\ \A a \in IDs \ {ret'.ID} :
                       OwnedIn(storage', n, a) = OwnedIn(storage, n, a)
      ]_vars

\* A Create for two items has failed after the ID record of its first item:
\* that item is recorded for the ID and for the namespace.
C24_Witness ==
    /\ ret.op = "Create"
    /\ ret.err = storageError
    /\ ret.num = 2
    /\ \E v \in OwnedIn(storage, ret.namespace, ret.ID) :
           /\ v \notin Range(ret.used)
           /\ v \in ItemsIn(storage, ret.namespace)

----------------------------------------------------------------------------
\* C25: the batch the loop of Create computes, with the same latest in every
\* call of nextItem and each chosen item appended to used, is the batch
\* obtained when latest advances to each chosen item, error included.
C25_SameAsAdvancingLatest ==
    call.out # Pending => call.out = call.advancing

\* A batch of two items or more that wraps around: it starts above latest
\* and ends below it, with used values in between.
C25_Witness ==
    /\ call.out # Pending
    /\ call.out.err = noError
    /\ Len(call.out.items) >= 2
    /\ call.latest # latestItemException
    /\ call.out.items[1] > call.latest
    /\ call.out.items[Len(call.out.items)] < call.latest
    /\ call.used # <<>>

----------------------------------------------------------------------------
\* C26: with valid boundaries a Create of at least one item and of no more
\* items than the range has free succeeds, with neither executionFailedError
\* nor capacityReachedError, and the latest item lies within the boundaries.
C26_CreateWithinCapacitySucceeds ==
    [][ ValidBounds =>
            \A n \in Namespaces :
                /\ (/\ ret'.op = "Create"
                    /\ ret'.namespace = n
                    /\ ret'.num >= 1
                    /\ ret'.num <= Cardinality(Free(ItemsIn(storage, n)))) =>
                       /\ ret'.err = noError
                       /\ Len(ret'.items) = ret'.num
                /\ LatestIn(storage', n).found =>
                       /\ IsNumeral(LatestIn(storage', n).value)
                       /\ Atoi(LatestIn(storage', n).value) \in rng[1] .. rng[2]
      ]_vars

\* A Create has taken every free value of a range that had allocated values
\* and a latest item below the maximum: it wrapped around and filled the range.
C26_Witness ==
    /\ Created
    /\ ValidBounds
    /\ ret.used # <<>>
    /\ ret.num >= 2
    /\ ret.num = Cardinality(Free(Range(ret.used)))
    /\ ret.latest # latestItemException
    /\ ret.items[1] > ret.latest
    /\ ret.items[Len(ret.items)] < ret.latest

----------------------------------------------------------------------------
\* C27: with valid boundaries a Create of no item returns the empty list
\* without error and leaves every record of the storage as it was.
C27_CreateOfNothingReturnsEmpty ==
    [][ (ValidBounds /\ ret'.op = "Create" /\ ret'.num = 0) =>
            /\ ret'.err = noError
            /\ ret'.items = <<>>
            /\ storage' = storage
      ]_vars

----------------------------------------------------------------------------
\* The values the storage records for two different IDs of a namespace.
SharedIn(d, namespace) ==
    UNION {OwnedIn(d, namespace, a) \cap OwnedIn(d, namespace, b) :
               <<a, b>> \in {ab \in IDs \X IDs : ab[1] # ab[2]}}

\* C28 as stated: while one Delete and one Create interleave, no state has a
\* value recorded for two different IDs of a namespace.
C28_NoValueForTwoIDs ==
    \A n \in Namespaces : SharedIn(storage, n) = {}

\* C28: while one Delete and one Create interleave, a value is recorded for
\* two different IDs only while the Delete stands between the deletion of
\* that value's namespace record and the deletion of its ID record, the
\* Create having chosen the value in between; it is a single value, and once
\* the Delete has returned no value is recorded for two IDs.
C28_SharedOnlyInsideDelete ==
    \A n \in Namespaces :
        SharedIn(storage, n) # {} =>
            /\ procs["p1"].pc = "delID"
            /\ procs["p1"].namespace = n
            /\ SharedIn(storage, n) = {procs["p1"].items[procs["p1"].i]}
            /\ procs["p2"].pc \in {"item", "id", "latest", "done"}
            /\ procs["p2"].namespace = n
            /\ procs["p2"].ID # procs["p1"].ID
            /\ SharedIn(storage, n) \subseteq Range(procs["p2"].items)
            /\ SharedIn(storage, n) \cap Range(procs["p2"].used) = {}

\* The Create of p2 has returned a value that the ID of the Delete of p1
\* still lists: the storage records it for both IDs.
C28_Witness ==
    /\ procs["p1"].pc = "delID"
    /\ procs["p2"].pc = "done"
    /\ procs["p2"].err = noError
    /\ procs["p1"].ID # procs["p2"].ID
    /\ procs["p1"].items[procs["p1"].i] \in Range(procs["p2"].items)
    /\ procs["p1"].items[procs["p1"].i]
           \in OwnedIn(storage, procs["p1"].namespace, procs["p1"].ID)
                   \cap OwnedIn(storage, procs["p2"].namespace, procs["p2"].ID)

----------------------------------------------------------------------------
\* The values of a namespace recorded for the namespace and for no ID.
NamespaceOnly(d, namespace) == ItemsIn(d, namespace) \ OwnedByAny(d, namespace)

\* C29: a Delete ended by a failing storage.Delete only removes records of
\* the items its ID listed, leaves no namespace record without ID record
\* that was not so before, and leaves at most one item listed for its ID
\* whose namespace record it has removed; a later successful Create chooses
\* only values without namespace record, and the values it chooses that
\* another ID lists are from then on recorded for both IDs.
C29_AbortedDeleteFreesListedItem ==
    [][ LET n == ret'.namespace
            others == UNION {OwnedIn(storage, n, a) : a \in IDs \ {ret'.ID}}
        IN  /\ (ret'.op = "Delete" /\ ret'.err = storageError) =>
                   /\ ItemsIn(storage', n) \subseteq ItemsIn(storage, n)
                   /\ (ItemsIn(storage, n) \ ItemsIn(storage', n))
                          \subseteq Range(ret'.owned)
                   /\ OwnedIn(storage', n, ret'.ID) \subseteq OwnedIn(storage, n, ret'.ID)
                   /\ \A a \in IDs \ {ret'.ID} :
                          OwnedIn(storage', n, a) = OwnedIn(storage, n, a)
                   /\ NamespaceOnly(storage', n) \subseteq NamespaceOnly(storage, n)
                   /\ Cardinality((OwnerOnly(storage', n) \ OwnerOnly(storage, n))
                                  \cap OwnedIn(storage', n, ret'.ID)) <= 1
            /\ (ret'.op = "Create" /\ ret'.err = noError) =>
                   /\ Range(ret'.items) \cap ItemsIn(storage, n) = {}
                   /\ SharedIn(storage', n) \ SharedIn(storage, n)
                          = (Range(ret'.items) \cap others)
                                \ OwnedIn(storage, n, ret'.ID)
      ]_vars

\* A Create has returned a value that another ID was given, never deleted
\* with success and still lists: the storage records it for both IDs.
C29_Witness ==
    /\ Created
    /\ \E a \in IDs \ {ret.ID} :
           \E v \in Range(ret.items) :
               /\ v \in hist.held[ret.namespace][a]
               /\ v \in OwnedIn(storage, ret.namespace, a)
               /\ v \in OwnedIn(storage, ret.namespace, ret.ID)
               /\ v \notin Range(ret.used)

====
